---- MODULE Spec2Model ----
(***************************************************************************)
(* Model of demandlib.particular_profiles.IndustrialLoadProfile.           *)
(*                                                                         *)
(* Time is counted in units since a Monday 00:00; a calendar day has       *)
(* UnitsPerDay units and the index is date_range(start, periods, freq)     *)
(* with start and freq in units.                                           *)
(* A float is an extended rational [n, d]: d > 0 is the finite value n/d   *)
(* in lowest terms, d = 0 is +inf (n = 1), -inf (n = -1) or NaN (n = 0).   *)
(***************************************************************************)
EXTENDS Integers, Sequences, FiniteSets

VARIABLES
    dt_index,           \* the index passed to __init__
    holidays,           \* the holiday dates passed to __init__
    holiday_is_sunday,  \* the flag passed to __init__
    dataframe,          \* self.dataframe: column name -> column
    call,               \* the arguments of the last simple_profile call
    result,             \* what the last call returned or raised
    logged,             \* whether the last call logged its error line
    repeated            \* whether the last call followed an earlier call

vars == <<dt_index, holidays, holiday_is_sunday, dataframe, call, result,
          logged, repeated>>

\* ------------------------------------------------------------------ bounds
\* units per calendar day (resolution of am, pm and of the index)
UnitsPerDay == 3
\* calendar days the index spans
IndexDays == 2
\* the larger of the two annual demands
MaxDemand == 2

\* ------------------------------------------------------------------ floats
Abs(x) == IF x < 0 THEN -x ELSE x
Sgn(x) == IF x < 0 THEN -1 ELSE IF x > 0 THEN 1 ELSE 0

RECURSIVE GCD(_, _)
GCD(a, b) == IF b = 0 THEN a ELSE GCD(b, a % b)

Norm(n, d) ==
    IF d = 0 THEN [n |-> Sgn(n), d |-> 0]
    ELSE LET g == GCD(Abs(n), Abs(d))
         IN  [n |-> (Sgn(d) * n) \div g, d |-> Abs(d) \div g]

R(n, d) == Norm(n, d)
Zero == R(0, 1)
IsNaN(x) == x.d = 0 /\ x.n = 0
IsInf(x) == x.d = 0 /\ x.n # 0
IsFinite(x) == x.d > 0

\* IEEE addition: inf + inf of one sign stays inf, inf - inf is NaN
FAdd(a, b) ==
    IF IsInf(a) /\ IsInf(b) /\ a.n = b.n THEN a
    ELSE Norm(a.n * b.d + b.n * a.d, a.d * b.d)

\* IEEE multiplication: inf * 0 is NaN
FMul(a, b) == Norm(a.n * b.n, a.d * b.d)

\* IEEE division: x / 0 is inf for x # 0 and NaN for x = 0; no exception
FDiv(a, b) ==
    Norm(a.n * b.d * (IF b.n < 0 THEN -1 ELSE 1), a.d * Abs(b.n))

\* IEEE ==: NaN equals nothing, itself included
FloatEq(a, b) == ~IsNaN(a) /\ ~IsNaN(b) /\ a = b

\* Series.sum(): skipna = True, the empty sum is 0.0
RECURSIVE SumFrom(_, _)
SumFrom(s, k) ==
    IF k > Len(s) THEN Zero
    ELSE FAdd(IF IsNaN(s[k]) THEN Zero ELSE s[k], SumFrom(s, k + 1))

SeriesSum(s) == SumFrom(s, 1)

\* Series.equals(): same length, same values, NaN in the same places
SeriesEquals(s, t) == s = t

\* the sequence f[1], ..., f[n] of a function f on 1..n
RECURSIVE SeqUpTo(_, _)
SeqUpTo(f, n) == IF n = 0 THEN <<>> ELSE Append(SeqUpTo(f, n - 1), f[n])

\* ------------------------------------------------------------------ index
Timestamp(idx, i) == idx.start + (i - 1) * idx.freq
TimeOfDay(t) == t % UnitsPerDay
Date(t) == t \div UnitsPerDay
\* 1 = Monday .. 7 = Sunday; date 0 is a Monday
IsoWeekday(t) == (Date(t) % 7) + 1

Rows(idx) == 1..idx.periods

\* ------------------------------------------------- construction (__init__)
\* tools.add_weekdays2df: ISO weekday, 0 on a holiday date, and with
\* holiday_is_sunday Sundays become 0 as well
add_weekdays2df(idx, hol, his) ==
    SeqUpTo([i \in Rows(idx) |->
                LET t == Timestamp(idx, i)
                IN  IF Date(t) \in hol THEN 0
                    ELSE IF his /\ IsoWeekday(t) = 7 THEN 0
                    ELSE IsoWeekday(t)],
            idx.periods)

Construct(idx, hol, his) ==
    [c \in {"weekday"} |-> add_weekdays2df(idx, hol, his)]

\* ------------------------------------------------------------------ options
Groups == <<"week", "weekend", "holiday">>

Factors(wd, wn, ed, en, hd, hn) ==
    [week    |-> [day |-> wd, night |-> wn],
     weekend |-> [day |-> ed, night |-> en],
     holiday |-> [day |-> hd, night |-> hn]]

default_factors ==
    Factors(R(8, 10), R(6, 10), R(9, 10), R(7, 10), R(9, 10), R(7, 10))

DropKey(f, k) == [x \in (DOMAIN f) \ {k} |-> f[x]]
DropSub(f, g, s) == [x \in DOMAIN f |-> IF x = g THEN DropKey(f[g], s) ELSE f[x]]

zero_factors == Factors(Zero, Zero, Zero, Zero, Zero, Zero)
distinct_factors ==
    Factors(R(1, 1), R(2, 1), R(3, 1), R(4, 1), R(5, 1), R(6, 1))

InvalidFactors ==
    { DropKey(default_factors, g) : g \in {"week", "weekend", "holiday"} }
    \cup { DropSub(default_factors, g, s) :
             g \in {"week", "weekend", "holiday"}, s \in {"day", "night"} }

DefaultGroups == [week |-> 1..5, weekend |-> {6, 7}, holiday |-> {0}]

\* the default sets, sets that overlap (label 0 is week and holiday, 1 is
\* week and weekend, 7 is weekend and holiday) and sets that leave out 7
GroupChoices ==
    { DefaultGroups,
      [week |-> 0..5, weekend |-> {1, 6, 7}, holiday |-> {0, 7}],
      [week |-> 1..5, weekend |-> {6},       holiday |-> {0}] }

Times == 0..(UnitsPerDay - 1)

Kwargs(a, p, g, pf) ==
    [am |-> a, pm |-> p, week |-> g.week, weekend |-> g.weekend,
     holiday |-> g.holiday, profile_factors |-> pf]

\* am <= pm and every choice of the groups with six distinct factors; the
\* default and the all-zero profile_factors with am = 1, pm the last unit of
\* the day and the default groups
KwargsChoices ==
    { Kwargs(tm[1], tm[2], g, distinct_factors) :
        tm \in {x \in Times \X Times : x[1] <= x[2]}, g \in GroupChoices }
    \cup { Kwargs(1, UnitsPerDay - 1, DefaultGroups, pf) :
              pf \in {default_factors, zero_factors} }

\* every annual_demand with the well-formed options, one with the malformed
CallChoices ==
    { [annual_demand |-> d, kwargs |-> kw] :
        d \in {1, MaxDemand}, kw \in KwargsChoices }
    \cup { [annual_demand |-> 1,
            kwargs |-> Kwargs(1, UnitsPerDay - 1, DefaultGroups, pf)] :
              pf \in InvalidFactors }

\* ------------------------------------------------------------ simple_profile
NoError == "ok"

\* the validation loop: the first missing entry raises ValueError
RECURSIVE check_from(_, _)
check_from(pf, k) ==
    IF k > Len(Groups) THEN NoError
    ELSE LET key == Groups[k]
         IN  IF key \notin DOMAIN pf
                 THEN "Missing entry for '" \o key \o "' in profile_factors."
             ELSE IF "day" \notin DOMAIN pf[key]
                 THEN "Missing entry for 'day' in profile_factors for '" \o key \o "'."
             ELSE IF "night" \notin DOMAIN pf[key]
                 THEN "Missing entry for 'night' in profile_factors for '" \o key \o "'."
             ELSE check_from(pf, k + 1)

\* a faulty validation: the 'night' sub-key is not checked
check_no_night(pf) ==
    IF \E k \in 1..Len(Groups) : Groups[k] \notin DOMAIN pf
        THEN "Missing entry for a group in profile_factors."
    ELSE IF \E k \in 1..Len(Groups) : "day" \notin DOMAIN pf[Groups[k]]
        THEN "Missing entry for 'day' in profile_factors."
    ELSE NoError

check_profile_factors(pf) == check_from(pf, 1)

\* DatetimeIndex.indexer_between_time(start, end): both ends included; when
\* start > end the window wraps past midnight
indexer_between_time(idx, start, end) ==
    { i \in Rows(idx) :
        LET tod == TimeOfDay(Timestamp(idx, i))
        IN  IF start <= end THEN start <= tod /\ tod <= end
                            ELSE start <= tod \/ tod <= end }

day_mask(idx, kw) == indexer_between_time(idx, kw.am, kw.pm)
night_mask(idx, kw) == indexer_between_time(idx, kw.pm, kw.am)

day_filter(idx, kw) ==
    LET m == day_mask(idx, kw)
    IN  SeqUpTo([i \in Rows(idx) |-> i \in m], idx.periods)
night_filter(idx, kw) ==
    LET m == night_mask(idx, kw)
    IN  SeqUpTo([i \in Rows(idx) |-> i \in m], idx.periods)

\* self.dataframe["weekday"].isin(...)
isin(column, values) ==
    SeqUpTo([i \in DOMAIN column |-> column[i] \in values], Len(column))

week_filter(df, kw) == isin(df["weekday"], kw.week)
weekend_filter(df, kw) == isin(df["weekday"], kw.weekend)
holiday_filter(df, kw) == isin(df["weekday"], kw.holiday)

\* the five filters, computed once before the assignments
filters(df, idx, kw) ==
    [day     |-> day_filter(idx, kw),
     night   |-> night_filter(idx, kw),
     week    |-> week_filter(df, kw),
     weekend |-> weekend_filter(df, kw),
     holiday |-> holiday_filter(df, kw)]

\* a faulty order: the holiday buckets are written before the weekend buckets
BucketOrderSwapped ==
    << [g |-> "week",    s |-> "day"], [g |-> "week",    s |-> "night"],
       [g |-> "holiday", s |-> "day"], [g |-> "holiday", s |-> "night"],
       [g |-> "weekend", s |-> "day"], [g |-> "weekend", s |-> "night"] >>

\* the six masked assignments, in the order they are written
BucketOrder ==
    << [g |-> "week",    s |-> "day"], [g |-> "week",    s |-> "night"],
       [g |-> "weekend", s |-> "day"], [g |-> "weekend", s |-> "night"],
       [g |-> "holiday", s |-> "day"], [g |-> "holiday", s |-> "night"] >>

\* a faulty reset: an 'ind' column left by an earlier call is kept
KeepInd(df, idx) ==
    [c \in (DOMAIN df) \cup {"ind"} |->
        IF c = "ind"
        THEN IF "ind" \in DOMAIN df THEN df["ind"]
             ELSE SeqUpTo([i \in Rows(idx) |-> Zero], idx.periods)
        ELSE df[c]]

\* self.dataframe["ind"] = 0.0
ResetInd(df, idx) ==
    [c \in (DOMAIN df) \cup {"ind"} |->
        IF c = "ind" THEN SeqUpTo([i \in Rows(idx) |-> Zero], idx.periods)
        ELSE df[c]]

\* self.dataframe.loc[mask, "ind"] = value
SetInd(df, mask, value) ==
    LET old == df["ind"]
    IN  [df EXCEPT !["ind"] =
            SeqUpTo([i \in DOMAIN old |-> IF mask[i] THEN value ELSE old[i]],
                    Len(old))]

\* the assignments from the k-th on; a missing key raises KeyError where the
\* right-hand side is evaluated and leaves the earlier assignments in place
RECURSIVE AssignFrom(_, _, _, _)
AssignFrom(df, flt, pf, k) ==
    IF k > Len(BucketOrder) THEN [dataframe |-> df, raised |-> FALSE]
    ELSE LET b == BucketOrder[k]
         IN  IF b.g \notin DOMAIN pf \/ b.s \notin DOMAIN pf[b.g]
             THEN [dataframe |-> df, raised |-> TRUE]
             ELSE LET dn == flt[b.s]
                      gr == flt[b.g]
                      mask == [i \in DOMAIN dn |-> dn[i] /\ gr[i]]
                  IN  AssignFrom(SetInd(df, mask, pf[b.g][b.s]), flt, pf, k + 1)

\* self.dataframe.index.freq.nanos / 3.6e12: the sampling interval in hours
time_interval(idx) == R(24 * idx.freq, UnitsPerDay)

\* a faulty normalisation: the raw profile is divided by its length, not its sum
NormalizeByCount(ind, annual_demand, ti) ==
    LET count == R(Len(ind), 1)
    IN  SeqUpTo([i \in DOMAIN ind |->
                    FDiv(FMul(FDiv(ind[i], count), R(annual_demand, 1)), ti)],
                Len(ind))

\* ind / ind.sum() * annual_demand / time_interval, element-wise
Normalize(ind, annual_demand, ti) ==
    LET total == SeriesSum(ind)
    IN  SeqUpTo([i \in DOMAIN ind |->
                    FDiv(FMul(FDiv(ind[i], total), R(annual_demand, 1)), ti)],
                Len(ind))

NoResult == [kind |-> "none", msg |-> "", series |-> <<>>]
Raised(kind, msg) == [kind |-> kind, msg |-> msg, series |-> <<>>]
Returned(s) == [kind |-> "series", msg |-> "", series |-> s]

\* one call of simple_profile on the working table df
Run(df, idx, annual_demand, kw) ==
    LET err == check_profile_factors(kw.profile_factors)
    IN  IF err # NoError
        THEN [dataframe |-> df, result |-> Raised("ValueError", err),
              logged |-> FALSE]
        ELSE LET df0 == ResetInd(df, idx)
                 a == AssignFrom(df0, filters(df0, idx, kw),
                                 kw.profile_factors, 1)
                 ind == a.dataframe["ind"]
             IN  IF a.raised
                 THEN [dataframe |-> a.dataframe,
                       result |-> Raised("KeyError", ""), logged |-> FALSE]
                 ELSE [dataframe |-> a.dataframe,
                       result |-> Returned(
                           Normalize(ind, annual_demand, time_interval(idx))),
                       logged |-> \E i \in DOMAIN ind : IsNaN(ind[i])]

\* ------------------------------------------------------------ specification
NoCall ==
    [made |-> FALSE, annual_demand |-> 0,
     kwargs |-> Kwargs(0, 0, DefaultGroups, default_factors)]

\* date_range(Sunday 00:00, periods, freq = one unit)
DateRange(periods) ==
    [start |-> 6 * UnitsPerDay, freq |-> 1, periods |-> periods]

Init ==
    /\ \/ /\ dt_index = DateRange(IndexDays * UnitsPerDay)
          /\ \E c \in {<<{}, FALSE>>, <<{7}, FALSE>>, <<{}, TRUE>>} :
                 holidays = c[1] /\ holiday_is_sunday = c[2]
       \/ /\ dt_index = DateRange(0)
          /\ holidays = {}
          /\ holiday_is_sunday = FALSE
    /\ dataframe = Construct(dt_index, holidays, holiday_is_sunday)
    /\ call = NoCall
    /\ result = NoResult
    /\ logged = FALSE
    /\ repeated = FALSE

simple_profile ==
    \E c \in CallChoices :
        LET r == Run(dataframe, dt_index, c.annual_demand, c.kwargs)
        IN  /\ dataframe' = r.dataframe
            /\ result' = r.result
            /\ logged' = r.logged
            /\ call' = [made |-> TRUE, annual_demand |-> c.annual_demand,
                        kwargs |-> c.kwargs]
            /\ repeated' = call.made
            /\ UNCHANGED <<dt_index, holidays, holiday_is_sunday>>

Next == simple_profile

Spec == Init /\ [][Next]_vars

\* -------------------------------------------------------------- properties
Kw == call.kwargs
ProfileFactors == call.kwargs.profile_factors
Ind == dataframe["ind"]
Weekday == dataframe["weekday"]
Tod(i) == TimeOfDay(Timestamp(dt_index, i))

\* the call returned a series (it raised nothing)
Completed == call.made /\ result.kind = "series"

MissingKey(pf) ==
    \E g \in {"week", "weekend", "holiday"} :
        \/ g \notin DOMAIN pf
        \/ "day" \notin DOMAIN pf[g]
        \/ "night" \notin DOMAIN pf[g]

Max(S) == CHOOSE m \in S : \A x \in S : x <= m

\* the order of the six buckets as the specification lists them
ClaimedOrder ==
    << <<"week", "day">>, <<"week", "night">>,
       <<"weekend", "day">>, <<"weekend", "night">>,
       <<"holiday", "day">>, <<"holiday", "night">> >>

\* the filters of the last call
Filters == filters(dataframe, dt_index, Kw)

\* the buckets of ClaimedOrder whose two filters of flt are both true on row i
Matching(flt, i) ==
    { k \in 1..6 : flt[ClaimedOrder[k][2]][i] /\ flt[ClaimedOrder[k][1]][i] }

FactorOf(k) == ProfileFactors[ClaimedOrder[k][1]][ClaimedOrder[k][2]]

\* the sampling interval of the index in hours
IntervalHours == R(24 * dt_index.freq, UnitsPerDay)

\* C1: whenever a call returns and the raw profile does not sum to zero, the
\* sum of the returned series times the sampling interval in hours is the
\* annual demand.
C1_Normalization ==
    (Completed /\ ~FloatEq(SeriesSum(Ind), Zero)) =>
        FloatEq(FMul(SeriesSum(result.series), IntervalHours),
                R(call.annual_demand, 1))

\* a returned profile that is not flat, for the larger annual demand
C1_Witness ==
    /\ Completed
    /\ call.annual_demand = MaxDemand
    /\ ~FloatEq(SeriesSum(Ind), Zero)
    /\ \E i, j \in DOMAIN result.series :
           /\ IsFinite(result.series[i]) /\ IsFinite(result.series[j])
           /\ result.series[i] # result.series[j]

\* C2: a call whose profile_factors lacks a group key or a 'day' or 'night'
\* sub-key raises ValueError, returns no series and leaves the working table
\* (the weekday column and any 'ind' column) as it was.
C2_Validation ==
    [][MissingKey(call'.kwargs.profile_factors) =>
          /\ result'.kind = "ValueError"
          /\ result'.series = <<>>
          /\ dataframe' = dataframe]_vars

\* a rejected call on a table that holds the non-zero 'ind' column of an
\* earlier call
C2_Witness ==
    /\ call.made
    /\ MissingKey(ProfileFactors)
    /\ result.kind = "ValueError"
    /\ "ind" \in DOMAIN dataframe
    /\ \E i \in DOMAIN Ind : Ind[i] # Zero

\* C3: whenever the raw profile sums to zero (all factors 0.0, or an empty
\* index) the call fails with DegenerateProfileError and returns no series
\* holding NaN or Inf.
C3_Degenerate ==
    (call.made /\ ~MissingKey(ProfileFactors) /\ "ind" \in DOMAIN dataframe
        /\ FloatEq(SeriesSum(Ind), Zero)) =>
        /\ result.kind = "DegenerateProfileError"
        /\ \A i \in DOMAIN result.series : IsFinite(result.series[i])

\* C4: for every timestamp and every am, pm (am = pm and timestamps at am or
\* pm included) exactly one of the day filter and the night filter is true,
\* and every weekday label 0..7 is in exactly one of the default groups.
C4_BucketPartition ==
    call.made =>
        /\ LET flt == Filters
           IN  \A i \in Rows(dt_index) : flt["day"][i] # flt["night"][i]
        /\ \A label \in 0..7 :
               Cardinality({g \in {"week", "weekend", "holiday"} :
                               label \in DefaultGroups[g]}) = 1

\* C5: a timestamp whose weekday label belongs to group g (and to no other
\* group) has the raw value profile_factors[g]['day'] if am <= time of day
\* < pm and profile_factors[g]['night'] otherwise.
C5_HalfOpenWindow ==
    Completed =>
        \A i \in Rows(dt_index) : \A g \in {"week", "weekend", "holiday"} :
            (/\ Weekday[i] \in Kw[g]
             /\ \A h \in {"week", "weekend", "holiday"} \ {g} :
                    Weekday[i] \notin Kw[h])
            => Ind[i] = IF Kw.am <= Tod(i) /\ Tod(i) < Kw.pm
                        THEN ProfileFactors[g]["day"]
                        ELSE ProfileFactors[g]["night"]

\* C6: after any sequence of earlier calls the weekday column is the one
\* built at construction, and a call returns (or raises) exactly what the
\* same call returns on a freshly constructed generator.
C6_NonInterference ==
    call.made =>
        LET fresh == Run(Construct(dt_index, holidays, holiday_is_sunday),
                         dt_index, call.annual_demand, Kw)
        IN  /\ Weekday = add_weekdays2df(dt_index, holidays, holiday_is_sunday)
            /\ result.kind = fresh.result.kind
            /\ result.msg = fresh.result.msg
            /\ SeriesEquals(result.series, fresh.result.series)

\* a call after an earlier call, returning a profile in which some rows were
\* assigned no factor and others a non-zero one
C6_Witness ==
    /\ repeated
    /\ Completed
    /\ LET flt == Filters
       IN  \E i, j \in DOMAIN Ind :
               Matching(flt, i) = {} /\ Matching(flt, j) # {} /\ Ind[j] # Zero

\* C7: in one result, two timestamps of the same bucket have equal values,
\* and two timestamps of different buckets with factors f1 and f2 (f2
\* non-zero) have values in the ratio f1 : f2.
C7_ShapePreservation ==
    Completed =>
        LET flt == Filters
        IN  \A i, j \in DOMAIN result.series :
            (i # j /\ Matching(flt, i) # {} /\ Matching(flt, j) # {}) =>
                LET bi == Max(Matching(flt, i))
                    bj == Max(Matching(flt, j))
                IN  /\ (bi = bj) =>
                           FloatEq(result.series[i], result.series[j])
                    /\ (bi # bj /\ FactorOf(bj) # Zero) =>
                           FloatEq(FMul(result.series[i], FactorOf(bj)),
                                   FMul(result.series[j], FactorOf(bi)))

\* C8: with holiday_is_sunday = False a timestamp on a holiday date has label
\* 0, and with the default groups its raw value is the 'holiday' day or night
\* factor.
C8_HolidayOverride ==
    ~holiday_is_sunday =>
        \A i \in Rows(dt_index) :
            Date(Timestamp(dt_index, i)) \in holidays =>
                /\ Weekday[i] = 0
                /\ (Completed /\ Kw.week = DefaultGroups.week
                      /\ Kw.weekend = DefaultGroups.weekend
                      /\ Kw.holiday = DefaultGroups.holiday) =>
                       Ind[i] \in {ProfileFactors["holiday"]["day"],
                                   ProfileFactors["holiday"]["night"]}

\* C9: when some timestamp's label is in none of the groups passed, the call
\* does not raise, logs the diagnostic, and that timestamp's value is 0.
C9_Unclassified ==
    (call.made /\ ~MissingKey(ProfileFactors)) =>
        \A i \in Rows(dt_index) :
            (Weekday[i] \notin Kw.week \cup Kw.weekend \cup Kw.holiday) =>
                /\ result.kind = "series"
                /\ logged
                /\ FloatEq(result.series[i], Zero)

\* C10: the raw value of a timestamp that matches one or more buckets is the
\* factor of the last matching bucket in the order week-day, week-night,
\* weekend-day, weekend-night, holiday-day, holiday-night.
C10_Precedence ==
    Completed =>
        LET flt == Filters
        IN  \A i \in Rows(dt_index) :
                Matching(flt, i) # {} =>
                    Ind[i] = FactorOf(Max(Matching(flt, i)))

\* a timestamp that matches a day and a night bucket of two groups, with six
\* different factors
C10_Witness ==
    /\ Completed
    /\ \A k, l \in 1..6 : k # l => FactorOf(k) # FactorOf(l)
    /\ LET flt == Filters
       IN  \E i \in Rows(dt_index) :
               /\ Cardinality(Matching(flt, i)) >= 4
               /\ Ind[i] = FactorOf(Max(Matching(flt, i)))

====
